---- MODULE Spec2Model ----
(***************************************************************************)
(* A model of labgen (src/main/labgen.py, src/main/commands.py): the       *)
(* argument list parser, the metadata builder, the template expander, the  *)
(* command dispatcher and the render/write loop.                           *)
(*                                                                         *)
(* Python strings are TLA+ strings (Len, SubSeq and \o act on them).       *)
(* A Python dict with integer and string keys is a record of two           *)
(* functions, [pos |-> ..., named |-> ...].                                *)
(***************************************************************************)
EXTENDS Integers, Sequences, FiniteSets, TLC

VARIABLES
    arg_text,       \* parse_args: the argument text handed to it
    arg_kwargs,     \* parse_args: the dict it returned
    arg_pc,         \* "call" before parse_args ran, "returned" after
    cmd_method,     \* Command.command_exec_method: the handler's signature
    cmd_text,       \* the argument text of the command's invocation site
    cmd_call,       \* what Command.__call__ built and handed to the handler
    cmd_pc,         \* "call", then "returned" or "raised"
    builder,        \* parse_metadata: its local Builder object
    last_were_object, \* parse_metadata: its local flag
    lines,          \* parse_metadata: the assignment lines matched so far
    bld_pc,         \* "parsing", then "built" or "raised"
    tpl_text,       \* the body text of a template definition
    tpl,            \* the Template object made of it
    calls,          \* the invocations of it: argument text and interpolation result
    tpl_pc,         \* "define", "ready", then "called"
    templates,      \* LabGen.templates: name -> Template
    tables,         \* LabGen.tables: variable name -> label
    figures,        \* LabGen.figures: figure name -> Figure
    files,          \* the files given to render_files: [ext, string]
    file_idx,       \* index of the file render_files is at
    render_pc,      \* "next", "stage1", "stage2", "write", or "raised"
    stack,          \* the strings being substituted, the source text first
    raised,         \* the exception that left render_files, "" if none
    out_files,      \* the output directory: file index -> contents
    rendered,       \* what render returned: file index -> string
    met,            \* the template invocation met last: its name and the stack then
    expanded,       \* what resolve_templates returned: file index -> string
    invoked         \* the command handlers called so far: [file, name]

arg_vars == <<arg_text, arg_kwargs, arg_pc>>

cmd_vars == <<cmd_method, cmd_text, cmd_call, cmd_pc>>

bld_vars == <<builder, last_were_object, lines, bld_pc>>

tpl_vars == <<tpl_text, tpl, calls, tpl_pc>>

rnd_vars == <<templates, tables, figures, files, file_idx, render_pc, stack, raised,
              out_files, rendered, met, expanded, invoked>>

vars == <<arg_text, arg_kwargs, arg_pc, cmd_method, cmd_text, cmd_call, cmd_pc,
          builder, last_were_object, lines, bld_pc, tpl_text, tpl, calls, tpl_pc,
          templates, tables, figures, files, file_idx, render_pc, stack, raised,
          out_files, rendered, met, expanded, invoked>>

(***************************************************************************)
(* Bounds of the model.                                                    *)
(***************************************************************************)
\* longest argument text given to parse_args in the parser specification
MaxArgLen == 5
\* most items in the argument text of a dispatched command
MaxCmdItems == 2
\* most assignment lines in one metadata text
MaxLines == 4
\* most parameter declaration lines of a template definition
MaxParams == 2
\* most items in the argument text of a template invocation
MaxCallItems == 2
\* the nesting of _resolve_templates calls the interpreter's call stack holds
RecursionLimit == 4

(***************************************************************************)
(* Strings.                                                                *)
(***************************************************************************)
Min(S) == CHOOSE m \in S : \A n \in S : m <= n

At(s, i) == SubSeq(s, i, i)

\* the regex class \s, as far as the model's alphabet goes
IsSpace(c) == c \in {" ", "\n"}

\* the regex class \w (re.U): letters, digits and the underscore
WordChars ==
    {"a", "b", "c", "d", "e", "f", "g", "h", "i", "j", "k", "l", "m", "n", "o", "p",
     "q", "r", "s", "t", "u", "v", "w", "x", "y", "z", "_",
     "0", "1", "2", "3", "4", "5", "6", "7", "8", "9"}

IsWord(c) == c \in WordChars

\* first index >= i of s that is not whitespace (Len(s)+1 when there is none)
SkipSpace(s, i) == Min({j \in i..(Len(s) + 1) : j = Len(s) + 1 \/ ~IsSpace(At(s, j))})

\* first index >= i of s that is not a word character
SkipWord(s, i) == Min({j \in i..(Len(s) + 1) : j = Len(s) + 1 \/ ~IsWord(At(s, j))})

\* first index >= i of s that holds character c (Len(s)+1 when there is none)
SkipTo(s, i, c) == Min({j \in i..(Len(s) + 1) : j = Len(s) + 1 \/ At(s, j) = c})

\* str.strip()
strip(s) ==
    LET a == SkipSpace(s, 1)
        E == {j \in 1..Len(s) : ~IsSpace(At(s, j))}
    IN  IF E = {} THEN "" ELSE SubSeq(s, a, CHOOSE m \in E : \A n \in E : n <= m)

\* all strings over alphabet A of length at most n
RECURSIVE StringsUpTo(_, _)
StringsUpTo(A, n) ==
    IF n = 0 THEN {""}
    ELSE LET P == StringsUpTo(A, n - 1) IN P \cup {p \o c : p \in P, c \in A}

(***************************************************************************)
(* Python dicts keyed by integers and strings.                             *)
(***************************************************************************)
EmptyFn == [k \in {} |-> ""]

EmptyDict == [pos |-> EmptyFn, named |-> EmptyFn]

FnPut(f, k, v) == [x \in (DOMAIN f) \cup {k} |-> IF x = k THEN v ELSE f[x]]

DictPutPos(d, i, v) == [d EXCEPT !.pos = FnPut(d.pos, i, v)]

DictPutNamed(d, k, v) == [d EXCEPT !.named = FnPut(d.named, k, v)]

(***************************************************************************)
(* LabGen.parse_args and its item pattern.                                 *)
(***************************************************************************)
\* One attempt of ARGS_ITEM_PATTERN, (?:\s*(\w*)\s*=\s*([^|]*)|([^|]+))\|?, at
\* index p of string.  The first alternative matches when whitespace, a run of
\* word characters and whitespace are followed by "=": group 1 is the word,
\* group 2 the text after "=" and the whitespace following it, up to the next
\* "|".  Otherwise the second alternative takes the non-empty text up to the
\* next "|" as group 3.  The match also consumes one following "|".
ARGS_ITEM_PATTERN(string, p) ==
    LET k1 == SkipSpace(string, p)
        k2 == SkipWord(string, k1)
        k3 == SkipSpace(string, k2)
        e  == SkipTo(string, p, "|")
        nxt == IF e <= Len(string) THEN e + 1 ELSE e
    IN  IF k3 <= Len(string) /\ At(string, k3) = "="
        THEN [found |-> TRUE, has_key |-> TRUE,
              group1 |-> SubSeq(string, k1, k2 - 1),
              group2 |-> SubSeq(string, SkipSpace(string, k3 + 1), e - 1),
              group3 |-> "", end |-> nxt]
        ELSE IF e > p
        THEN [found |-> TRUE, has_key |-> FALSE,
              group1 |-> "", group2 |-> "",
              group3 |-> SubSeq(string, p, e - 1), end |-> nxt]
        ELSE [found |-> FALSE, has_key |-> FALSE,
              group1 |-> "", group2 |-> "", group3 |-> "", end |-> p]

\* the loop of parse_args over finditer, from scan index p on, with the
\* loop's two locals position and kwargs (strip_values = True)
RECURSIVE parse_args_loop(_, _, _, _)
parse_args_loop(string, p, position, kwargs) ==
    IF p > Len(string) THEN kwargs
    ELSE LET match == ARGS_ITEM_PATTERN(string, p)
         IN  IF ~match.found
             THEN parse_args_loop(string, p + 1, position, kwargs)
             ELSE IF ~match.has_key
             THEN parse_args_loop(string, match.end, position + 1,
                                  DictPutPos(kwargs, position, strip(match.group3)))
             ELSE parse_args_loop(string, match.end, position + 1,
                                  DictPutNamed(kwargs, match.group1, strip(match.group2)))

parse_args(string) == parse_args_loop(string, 1, 0, EmptyDict)

\* the items of an argument text in left-to-right order, as the item pattern
\* finds them from scan index p on
RECURSIVE items_from(_, _)
items_from(string, p) ==
    IF p > Len(string) THEN <<>>
    ELSE LET match == ARGS_ITEM_PATTERN(string, p)
         IN  IF match.found THEN <<match>> \o items_from(string, match.end)
             ELSE items_from(string, p + 1)

bare_items(string) == SelectSeq(items_from(string, 1), LAMBDA m : ~m.has_key)

named_items(string) == SelectSeq(items_from(string, 1), LAMBDA m : m.has_key)

(***************************************************************************)
(* Command.__call__ (labgen.py 475-485, the same text in commands.py       *)
(* 30-40) and the Python call it ends in.                                  *)
(***************************************************************************)
\* str(key) of an integer key
IntStr(i) == SubSeq("0123456789", i + 1, i + 1)

\* get_method_arg_names: co_varnames[:co_argcount], the declared parameter
\* names, the first (context) parameter included, parameters with a default
\* included, **kwargs not
get_method_arg_names(method) == method.arg_names

\* the names the loop of Command.__call__ walks: [1:] drops the context parameter
declared_names(method) == Tail(get_method_arg_names(method))

\* args_dict.get(i, None), and when that is None, args_dict[arg_name]
\* (a KeyError when there is no such entry)
pos_arg_found(args_dict, i, arg_name) ==
    i \in DOMAIN args_dict.pos \/ arg_name \in DOMAIN args_dict.named

pos_arg(args_dict, i, arg_name) ==
    IF i \in DOMAIN args_dict.pos THEN args_dict.pos[i] ELSE args_dict.named[arg_name]

\* the keyword arguments of the call: every key of args_dict, as str(key),
\* with its value
call_kwargs(args_dict) ==
    [k \in (DOMAIN args_dict.named) \cup {IntStr(i) : i \in DOMAIN args_dict.pos} |->
        IF k \in DOMAIN args_dict.named THEN args_dict.named[k]
        ELSE args_dict.pos[CHOOSE i \in DOMAIN args_dict.pos : IntStr(i) = k]]

\* Python's binding of exec_method(parser, *positional, **kwargs): every
\* declared parameter is filled positionally, so a keyword naming a declared
\* parameter is a TypeError (multiple values), and so is any keyword when the
\* handler declares no **kwargs.
call_raises_TypeError(method, kwargs) ==
    \/ \E k \in DOMAIN kwargs : \E j \in 1..Len(method.arg_names) : method.arg_names[j] = k
    \/ ~method.var_kw /\ DOMAIN kwargs # {}

NoCall == [args_dict |-> EmptyDict, positional |-> <<>>, kwargs |-> EmptyFn, raised |-> ""]

Command_call(method, args_dict) ==
    LET names == declared_names(method)
        missing == {i \in 1..Len(names) : ~pos_arg_found(args_dict, i - 1, names[i])}
        positional == [i \in 1..Len(names) |-> pos_arg(args_dict, i - 1, names[i])]
        kwargs == call_kwargs(args_dict)
    IN  IF missing # {}
        THEN [args_dict |-> args_dict,
              positional |-> [i \in 1..(Min(missing) - 1) |-> pos_arg(args_dict, i - 1, names[i])],
              kwargs |-> EmptyFn, raised |-> "KeyError"]
        ELSE [args_dict |-> args_dict, positional |-> positional, kwargs |-> kwargs,
              raised |-> IF call_raises_TypeError(method, kwargs) THEN "TypeError" ELSE ""]

(***************************************************************************)
(* Properties and property sets (labgen.py 123-129, 248-250, 295-309,      *)
(* 337-349).  find_all_properties lists a class's _PROP_ attributes in the *)
(* order of dir(), which is alphabetical.                                  *)
(***************************************************************************)
METADATA_VALUE_TYPE_NUMBER == "number"
METADATA_VALUE_TYPE_LIST == "list"
METADATA_VALUE_TYPE_BUILDER == "builder"
METADATA_VALUE_TYPE_STR == "str"
METADATA_VALUE_TYPE_RANGE == "range"
METADATA_VALUE_TYPE_BOOL == "boolean"

\* Property(name, type_, object_type=None, default=None, single_value=True);
\* a default of None is has_default = FALSE
Property(name, type_, object_type, has_default, default, single_value) ==
    [name |-> name, type |-> type_, object_type |-> object_type,
     has_default |-> has_default, default |-> default, single_value |-> single_value]

CurveProperties ==
    << Property("color", METADATA_VALUE_TYPE_STR, "", TRUE, "black", TRUE),
       Property("scope", METADATA_VALUE_TYPE_STR, "", TRUE, "", TRUE),
       Property("style", METADATA_VALUE_TYPE_STR, "", TRUE, "-", TRUE),
       Property("x", METADATA_VALUE_TYPE_STR, "", TRUE, "x", TRUE),
       Property("y", METADATA_VALUE_TYPE_STR, "", TRUE, "y", TRUE) >>

PlotProperties ==
    << Property("axes", METADATA_VALUE_TYPE_LIST, "", TRUE, "x;y", TRUE),
       Property("curve", METADATA_VALUE_TYPE_BUILDER, "Curve", FALSE, "", FALSE),
       Property("xrange", METADATA_VALUE_TYPE_RANGE, "", TRUE, "autoscale", TRUE),
       Property("yrange", METADATA_VALUE_TYPE_RANGE, "", TRUE, "autoscale", TRUE) >>

TableProperties ==
    << Property("cols", METADATA_VALUE_TYPE_LIST, "", TRUE, "", TRUE),
       Property("meta", METADATA_VALUE_TYPE_BOOL, "", TRUE, "0", TRUE),
       Property("stack", METADATA_VALUE_TYPE_LIST, "", TRUE, "", TRUE) >>

\* Builder and ObjectBuilder take any property set (labgen.py 138-139, 193):
\* an entity kind Sample with a required number `n`, a many-valued nested
\* `point` and a defaulted `unit`; a Point has a required `x` and a
\* defaulted `y`.  A Property without default= is required (124-125).
PointProperties ==
    << Property("x", METADATA_VALUE_TYPE_NUMBER, "", FALSE, "", TRUE),
       Property("y", METADATA_VALUE_TYPE_NUMBER, "", TRUE, "0", TRUE) >>

SampleProperties ==
    << Property("n", METADATA_VALUE_TYPE_NUMBER, "", FALSE, "", TRUE),
       Property("point", METADATA_VALUE_TYPE_BUILDER, "Point", FALSE, "", FALSE),
       Property("unit", METADATA_VALUE_TYPE_STR, "", TRUE, "mm", TRUE) >>

find_all_properties(clazz) ==
    CASE clazz = "Curve" -> CurveProperties
      [] clazz = "Plot" -> PlotProperties
      [] clazz = "Table" -> TableProperties
      [] clazz = "Point" -> PointProperties
      [] clazz = "Sample" -> SampleProperties

\* key in possible_properties, and possible_properties[key]
HasProp(props, key) == \E i \in 1..Len(props) : props[i].name = key

GetProp(props, key) == props[CHOOSE i \in 1..Len(props) : props[i].name = key]

(***************************************************************************)
(* The converters, DatafileVariable.CONVERTERS (labgen.py 209-215) and     *)
(* RangeObject (109-114).  A converter gives [raised, value].              *)
(***************************************************************************)
\* str.split(sep) for a one-character separator
RECURSIVE split(_, _)
split(s, sep) ==
    LET e == SkipTo(s, 1, sep)
    IN  IF e > Len(s) THEN <<s>>
        ELSE <<SubSeq(s, 1, e - 1)>> \o split(SubSeq(s, e + 1, Len(s)), sep)

UpperCase == "ABCDEFGHIJKLMNOPQRSTUVWXYZ"
LowerCase == "abcdefghijklmnopqrstuvwxyz"

\* str.lower()
RECURSIVE lower(_)
lower(s) ==
    IF s = "" THEN ""
    ELSE LET c == At(s, 1)
             U == {i \in 1..Len(UpperCase) : At(UpperCase, i) = c}
         IN  (IF U = {} THEN c ELSE At(LowerCase, CHOOSE i \in U : TRUE))
                \o lower(SubSeq(s, 2, Len(s)))

Digits == "0123456789"

IsDigit(c) == \E i \in 1..Len(Digits) : At(Digits, i) = c

\* float(s), for the decimal integers: surrounding whitespace is ignored,
\* anything but a run of digits is a ValueError
IsNumber(s) == strip(s) # "" /\ \A i \in 1..Len(strip(s)) : IsDigit(At(strip(s), i))

RECURSIVE DigitsValue(_)
DigitsValue(t) ==
    IF t = "" THEN 0
    ELSE 10 * DigitsValue(SubSeq(t, 1, Len(t) - 1))
            + ((CHOOSE i \in 1..Len(Digits) : At(Digits, i) = At(t, Len(t))) - 1)

float(s) == DigitsValue(strip(s))

Converted(value) == [raised |-> "", value |-> value]

ConvertFailed(kind) == [raised |-> kind, value |-> ""]

\* RangeObject(start_stop)
RangeObject(start_stop) ==
    IF strip(start_stop) = "autoscale"
    THEN Converted([auto_scale |-> TRUE, start |-> 0, stop |-> 0])
    ELSE LET parts == split(start_stop, ";")
         IN  IF Len(parts) = 2 /\ IsNumber(parts[1]) /\ IsNumber(parts[2])
             THEN Converted([auto_scale |-> FALSE, start |-> float(parts[1]),
                             stop |-> float(parts[2])])
             ELSE ConvertFailed("ValueError")

HasConverter(type_name) ==
    type_name \in {METADATA_VALUE_TYPE_LIST, METADATA_VALUE_TYPE_NUMBER, METADATA_VALUE_TYPE_STR,
                   METADATA_VALUE_TYPE_RANGE, METADATA_VALUE_TYPE_BOOL}

CONVERTERS(type_name, s) ==
    CASE type_name = METADATA_VALUE_TYPE_LIST ->
            LET kept == SelectSeq(split(s, ";"), LAMBDA k : k # "")
            IN  Converted([i \in 1..Len(kept) |-> strip(kept[i])])
      [] type_name = METADATA_VALUE_TYPE_NUMBER ->
            IF IsNumber(s) THEN Converted(float(s)) ELSE ConvertFailed("ValueError")
      [] type_name = METADATA_VALUE_TYPE_STR -> Converted(strip(s))
      [] type_name = METADATA_VALUE_TYPE_RANGE -> RangeObject(s)
      [] type_name = METADATA_VALUE_TYPE_BOOL ->
            Converted(lower(s) \notin {"false", "f", "0"})

\* Builder.process_value with Builder.get_converter_for_type
process_value(type_name, value) ==
    IF ~HasConverter(type_name) THEN ConvertFailed("NoConverterForKind")
    ELSE CONVERTERS(type_name, strip(value))

(***************************************************************************)
(* Builder and ObjectBuilder (labgen.py 137-198).  A builder is a record   *)
(* of its fields; object_builder is <<>> for None and <<ob>> otherwise;    *)
(* raised names the exception that left the method, "" when none did.      *)
(***************************************************************************)
Builder_init(possible_properties) ==
    [possible_properties |-> possible_properties, metadata |-> EmptyFn,
     object_builder |-> <<>>, raised |-> ""]

ObjectBuilder_init(object_name, builder_property) ==
    [possible_properties |-> find_all_properties(builder_property.object_type),
     metadata |-> EmptyFn, object_builder |-> <<>>, raised |-> "",
     obj_name |-> object_name, property |-> builder_property]

Raise(b, kind) == [b EXCEPT !.raised = kind]

\* put_processed that keeps only the latest value of a many-valued property
put_processed_keep_last(b, prop, processed_value) ==
    [b EXCEPT !.metadata =
        FnPut(b.metadata, prop.name,
              IF prop.single_value THEN processed_value ELSE <<processed_value>>)]

\* Builder.put_processed
put_processed(b, prop, processed_value) ==
    [b EXCEPT !.metadata =
        FnPut(b.metadata, prop.name,
              IF prop.single_value THEN processed_value
              ELSE (IF prop.name \in DOMAIN b.metadata THEN b.metadata[prop.name] ELSE <<>>)
                       \o <<processed_value>>)]

RECURSIVE Builder_put(_, _, _)
RECURSIVE Builder_build(_)
RECURSIVE flush_object_builder(_)

\* ObjectBuilder.build: object_type(obj_name, super().build())
ObjectBuilder_build(ob) ==
    LET built == Builder_build(ob)
    IN  [raised |-> built.raised,
         value |-> [name |-> ob.obj_name, metadata |-> built.metadata]]

flush_object_builder(b) ==
    IF b.object_builder = <<>> THEN b
    ELSE LET ob == b.object_builder[1]
             built == ObjectBuilder_build(ob)
         IN  IF built.raised # "" THEN Raise(b, built.raised)
             ELSE [put_processed(b, ob.property, built.value) EXCEPT !.object_builder = <<>>]

Builder_put(b, key, value) ==
    IF ~HasProp(b.possible_properties, key) THEN Raise(b, "KeyError")
    ELSE LET prop == GetProp(b.possible_properties, key)
         IN  IF prop.type = METADATA_VALUE_TYPE_BUILDER
             THEN LET flushed == flush_object_builder(b)
                      title == process_value(METADATA_VALUE_TYPE_STR, value)
                  IN  IF flushed.raised # "" THEN flushed
                      ELSE [flushed EXCEPT
                              !.object_builder = <<ObjectBuilder_init(title.value, prop)>>]
             ELSE LET processed == process_value(prop.type, value)
                  IN  IF processed.raised # "" THEN Raise(b, processed.raised)
                      ELSE put_processed(b, prop, processed.value)

\* put_into_object_builder that lets a line pass when nothing is being built
put_into_object_builder_ignore_dangling(b, key, value) ==
    IF b.object_builder = <<>> THEN b
    ELSE LET ob == Builder_put(b.object_builder[1], key, value)
         IN  IF ob.raised # "" THEN Raise(b, ob.raised)
             ELSE [b EXCEPT !.object_builder = <<ob>>]

\* Builder.put_into_object_builder
put_into_object_builder(b, key, value) ==
    IF b.object_builder = <<>> THEN Raise(b, "DanglingSubProperty")
    ELSE LET ob == Builder_put(b.object_builder[1], key, value)
         IN  IF ob.raised # "" THEN Raise(b, ob.raised)
             ELSE [b EXCEPT !.object_builder = <<ob>>]

RECURSIVE fill_defaults(_, _)

\* the loop of Builder.build when a property without default is passed over
RECURSIVE fill_defaults_skip_required(_, _)
fill_defaults_skip_required(b, i) ==
    IF i > Len(b.possible_properties) THEN b
    ELSE LET prop == b.possible_properties[i]
         IN  IF prop.name \notin DOMAIN b.metadata /\ prop.type # METADATA_VALUE_TYPE_BUILDER
                    /\ prop.has_default
             THEN CHOOSE r \in {IF put.raised # "" THEN put
                                ELSE fill_defaults_skip_required(put, i + 1) :
                                    put \in {Builder_put(b, prop.name, prop.default)}} : TRUE
             ELSE fill_defaults_skip_required(b, i + 1)

\* the loop of Builder.build over possible_properties.values(), from the
\* i-th property on
fill_defaults(b, i) ==
    IF i > Len(b.possible_properties) THEN b
    ELSE LET prop == b.possible_properties[i]
         IN  IF prop.name \notin DOMAIN b.metadata /\ prop.type # METADATA_VALUE_TYPE_BUILDER
             THEN IF ~prop.has_default THEN Raise(b, "MissingRequiredProperty")
                  \* self.put(prop.name, prop.default), then the rest of the loop
                  \* on the builder it leaves (bound as a value by the set)
                  ELSE CHOOSE r \in {IF put.raised # "" THEN put ELSE fill_defaults(put, i + 1) :
                                      put \in {Builder_put(b, prop.name, prop.default)}} : TRUE
             ELSE fill_defaults(b, i + 1)

\* Builder.build without the loop that fills in the defaults
Builder_build_no_defaults(b) ==
    IF b.object_builder # <<>> THEN flush_object_builder(b) ELSE b

\* Builder.build
Builder_build(b) ==
    LET flushed == IF b.object_builder # <<>> THEN flush_object_builder(b) ELSE b
    IN  IF flushed.raised # "" THEN flushed ELSE fill_defaults(flushed, 1)

(***************************************************************************)
(* Template (labgen.py 399-456): parse_body, _apply_options and            *)
(* interpolate_params.  A template is a record of its fields; a parameter  *)
(* default of None is [none |-> TRUE].                                     *)
(***************************************************************************)
PARAM_DEFINITION == "++"
OPT_DEFINITION == "@@"

startswith(line, prefix) ==
    Len(line) >= Len(prefix) /\ SubSeq(line, 1, Len(prefix)) = prefix

\* "\n".join(lines)
RECURSIVE join_lines(_)
join_lines(ls) ==
    IF ls = <<>> THEN ""
    ELSE IF Len(ls) = 1 THEN ls[1]
    ELSE ls[1] \o "\n" \o join_lines(Tail(ls))

None == [none |-> TRUE, value |-> ""]

Some(v) == [none |-> FALSE, value |-> v]

\* the loop of parse_body over the non-empty lines, from the i-th line on;
\* acc holds the locals params, positions, body_lines, options, params_count
RECURSIVE parse_body_loop(_, _, _)
parse_body_loop(ls, i, acc) ==
    IF i > Len(ls) THEN acc
    ELSE LET line == ls[i]
         IN  IF startswith(line, OPT_DEFINITION)
             THEN parse_body_loop(ls, i + 1,
                    [acc EXCEPT !.options = Append(@, SubSeq(line, Len(OPT_DEFINITION) + 1, Len(line)))])
             ELSE IF startswith(line, PARAM_DEFINITION)
             THEN LET rest == SubSeq(line, Len(PARAM_DEFINITION) + 1, Len(line))
                      eq == SkipTo(rest, 1, "=")
                      \* kv_pair = rest.split("=", 1)
                      key == strip(SubSeq(rest, 1, eq - 1))
                      raw == SubSeq(rest, eq + 1, Len(rest))
                      value == IF eq > Len(rest) THEN None
                               ELSE Some(IF strip(raw) # "" THEN strip(raw) ELSE raw)
                  IN  parse_body_loop(ls, i + 1,
                        [acc EXCEPT !.params = FnPut(@, key, value),
                                    !.positions = FnPut(@, key, acc.params_count),
                                    !.params_count = @ + 1])
             ELSE parse_body_loop(ls, i + 1, [acc EXCEPT !.body_lines = Append(@, line)])

parse_body(string) ==
    LET ls == SelectSeq(split(string, "\n"), LAMBDA l : l # "")
        acc == parse_body_loop(ls, 1,
                 [params |-> EmptyFn, positions |-> EmptyFn, body_lines |-> <<>>,
                  options |-> <<>>, params_count |-> 0])
    IN  [body |-> join_lines(acc.body_lines), param_map |-> acc.params,
         param_positions |-> acc.positions, opts |-> acc.options]

\* Template.__init__ without _apply_options
Template_init_without_options(name, body) ==
    LET parsed == parse_body(body)
    IN  [name |-> name, body |-> parsed.body, param_map |-> parsed.param_map,
         param_positions |-> parsed.param_positions, opts |-> parsed.opts]

\* Template.__init__ with _apply_options
Template_init(name, body) ==
    LET parsed == parse_body(body)
    IN  [name |-> name,
         body |-> IF \E i \in 1..Len(parsed.opts) : parsed.opts[i] = "wrap-newlines"
                  THEN "\n" \o parsed.body \o "\n" ELSE parsed.body,
         param_map |-> parsed.param_map,
         param_positions |-> parsed.param_positions,
         opts |-> parsed.opts]

\* the first match of PARAM_INTERPOLATION_PATTERN, %{2}([\w_]*), in string
PARAM_INTERPOLATION_PATTERN(string) ==
    LET S == {i \in 1..(Len(string) - 1) : At(string, i) = "%" /\ At(string, i + 1) = "%"}
    IN  IF S = {} THEN [found |-> FALSE, start |-> 0, end |-> 0, group1 |-> ""]
        ELSE LET i == Min(S)
                 e == SkipWord(string, i + 2)
             IN  [found |-> TRUE, start |-> i, end |-> e, group1 |-> SubSeq(string, i + 2, e - 1)]

\* interceptor_func with the positional lookup shifted by one
interceptor_func_one_based(template, substitution, param) ==
    IF param \notin DOMAIN template.param_positions
    THEN ConvertFailed("UndefinedParameter")
    ELSE LET position == template.param_positions[param] + 1
         IN  IF param \in DOMAIN substitution.named
             THEN Converted(substitution.named[param])
             ELSE IF position \in DOMAIN substitution.pos
             THEN Converted(substitution.pos[position])
             ELSE IF param \in DOMAIN template.param_map /\ ~template.param_map[param].none
             THEN Converted(template.param_map[param].value)
             ELSE ConvertFailed("UnresolvedParameter")

\* interceptor_func that fills a placeholder without a value with nothing
interceptor_func_empty_for_missing(template, substitution, param) ==
    IF param \notin DOMAIN template.param_positions
    THEN ConvertFailed("UndefinedParameter")
    ELSE LET position == template.param_positions[param]
         IN  IF param \in DOMAIN substitution.named
             THEN Converted(substitution.named[param])
             ELSE IF position \in DOMAIN substitution.pos
             THEN Converted(substitution.pos[position])
             ELSE IF param \in DOMAIN template.param_map /\ ~template.param_map[param].none
             THEN Converted(template.param_map[param].value)
             ELSE Converted("")

\* interceptor_func that looks into the template's defaults first
interceptor_func_default_first(template, substitution, param) ==
    IF param \notin DOMAIN template.param_positions
    THEN ConvertFailed("UndefinedParameter")
    ELSE LET position == template.param_positions[param]
         IN  IF param \in DOMAIN template.param_map /\ ~template.param_map[param].none
             THEN Converted(template.param_map[param].value)
             ELSE IF param \in DOMAIN substitution.named
             THEN Converted(substitution.named[param])
             ELSE IF position \in DOMAIN substitution.pos
             THEN Converted(substitution.pos[position])
             ELSE ConvertFailed("UnresolvedParameter")

\* interceptor_func that takes a call-site value for an undeclared name
interceptor_func_undeclared_by_name(template, substitution, param) ==
    IF param \notin DOMAIN template.param_positions
    THEN IF param \in DOMAIN substitution.named
         THEN Converted(substitution.named[param])
         ELSE ConvertFailed("UndefinedParameter")
    ELSE LET position == template.param_positions[param]
         IN  IF param \in DOMAIN substitution.named
             THEN Converted(substitution.named[param])
             ELSE IF position \in DOMAIN substitution.pos
             THEN Converted(substitution.pos[position])
             ELSE IF param \in DOMAIN template.param_map /\ ~template.param_map[param].none
             THEN Converted(template.param_map[param].value)
             ELSE ConvertFailed("UnresolvedParameter")

\* interceptor_func of interpolate_params: the value of one placeholder,
\* [raised, value]
interceptor_func(template, substitution, param) ==
    IF param \notin DOMAIN template.param_positions
    THEN ConvertFailed("UndefinedParameter")
    ELSE LET position == template.param_positions[param]
         IN  IF param \in DOMAIN substitution.named
             THEN Converted(substitution.named[param])
             ELSE IF position \in DOMAIN substitution.pos
             THEN Converted(substitution.pos[position])
             ELSE IF param \in DOMAIN template.param_map /\ ~template.param_map[param].none
             THEN Converted(template.param_map[param].value)
             \* self.param_map.get(position): param_map has no integer key
             ELSE ConvertFailed("UnresolvedParameter")

\* PARAM_INTERPOLATION_PATTERN.sub(interceptor_func, string)
RECURSIVE interpolate_sub(_, _, _)
interpolate_sub(template, substitution, string) ==
    LET match == PARAM_INTERPOLATION_PATTERN(string)
    IN  IF ~match.found THEN Converted(string)
        ELSE LET v == interceptor_func(template, substitution, match.group1)
                 rest == interpolate_sub(template, substitution,
                                         SubSeq(string, match.end, Len(string)))
             IN  IF v.raised # "" THEN v
                 ELSE IF rest.raised # "" THEN rest
                 ELSE Converted(SubSeq(string, 1, match.start - 1) \o v.value \o rest.value)

interpolate_params(template, substitution) ==
    interpolate_sub(template, substitution, template.body)

(***************************************************************************)
(* Invocation sites and the two render stages (labgen.py 33-39, 406, 460,  *)
(* 652-705).                                                               *)
(***************************************************************************)
\* the least index j >= i with string[j..j+1] = "||", 0 if there is none
find_bars(string, i) ==
    LET S == {j \in i..(Len(string) - 1) : At(string, j) = "|" /\ At(string, j + 1) = "|"}
    IN  IF S = {} THEN 0 ELSE Min(S)

\* the first match in string of create_invocation_pattern(initiating_char,
\* "|{2}", "|{2}"): the initiating char and a name, then either blanks, "||",
\* the shortest text up to a "||", and that "||", or nothing. `end` is the
\* index after the match; has_group2 is FALSE when group(2) is None.
INVOCATION_PATTERN(initiating_char, string) ==
    LET S == {i \in 1..(Len(string) - 1) :
                 At(string, i) = initiating_char /\ IsWord(At(string, i + 1))}
    IN  IF S = {}
        THEN [found |-> FALSE, start |-> 0, end |-> 0, group1 |-> "",
              has_group2 |-> FALSE, group2 |-> ""]
        ELSE LET i == Min(S)
                 e == SkipWord(string, i + 1)
                 open == SkipSpace(string, e)
                 opened == find_bars(string, open) = open
                 close == IF opened THEN find_bars(string, open + 2) ELSE 0
             IN  IF opened /\ close # 0
                 THEN [found |-> TRUE, start |-> i, end |-> close + 2,
                       group1 |-> SubSeq(string, i + 1, e - 1),
                       has_group2 |-> TRUE,
                       group2 |-> SubSeq(string, open + 2, close - 1)]
                 ELSE [found |-> TRUE, start |-> i, end |-> e,
                       group1 |-> SubSeq(string, i + 1, e - 1),
                       has_group2 |-> FALSE, group2 |-> ""]

\* the text before a match, and the text after it
before(string, match) == SubSeq(string, 1, match.start - 1)

after(string, match) == SubSeq(string, match.end, Len(string))

\* a string being substituted by Pattern.sub in the expansion of template
\* `name` ("" for the source text): the part not yet scanned and the result
\* so far
Frame(name, string) == [name |-> name, todo |-> string, done |-> ""]

\* outer_templates when a nested call is given [template_name] alone
outer_templates_innermost_only(frames) ==
    IF Len(frames) > 1 THEN <<frames[Len(frames)].name>> ELSE <<>>

\* outer_templates of the innermost call of _resolve_templates: the names of
\* the templates being expanded, outermost first
outer_templates(frames) == [i \in 1..(Len(frames) - 1) |-> frames[i + 1].name]

\* the direct recursion test that compares with the outermost caller
recursive_call_outermost(template_name, outer) ==
    outer # <<>> /\ template_name = outer[1]

\* outer_templates and template_name == outer_templates[-1]
recursive_call(template_name, outer) ==
    outer # <<>> /\ template_name = outer[Len(outer)]

\* COMMAND_DEFINITIONS: the handlers cmd_date and cmd_ref
COMMAND_DEFINITIONS ==
    [n \in {"date", "fig", "ref"} |->
        CASE n = "date" -> [arg_names |-> <<"parser">>, var_kw |-> TRUE]
          [] n = "fig" -> [arg_names |-> <<"parser", "name", "hr_name">>, var_kw |-> TRUE]
          [] n = "ref" -> [arg_names |-> <<"parser", "var_name">>, var_kw |-> TRUE]]

\* remove_non_alphanum: the characters that are alphanumeric or "_"
RECURSIVE remove_non_alphanum(_)
remove_non_alphanum(string) ==
    IF string = "" THEN ""
    ELSE (IF IsWord(At(string, 1)) THEN At(string, 1) ELSE "")
            \o remove_non_alphanum(SubSeq(string, 2, Len(string)))

\* generate_label(name); random is what random_str(4) returns
generate_label(name, random) == "label_" \o remove_non_alphanum(name) \o "_" \o random

\* os.path.basename
basename(path) ==
    LET S == {i \in 1..Len(path) : At(path, i) = "/"}
    IN  IF S = {} THEN path
        ELSE SubSeq(path, (CHOOSE m \in S : \A n \in S : n <= m) + 1, Len(path))

\* Figure(full_path): its path and label
Figure(full_path, random) ==
    [path |-> full_path, label |-> generate_label(basename(full_path), random)]

NoFigure == [path |-> "", label |-> ""]

\* LabGen.figures_dir
figures_dir == "fig"

\* the files of figures_dir, as os.path.exists sees them
FigureFiles == {"pic.png"}

\* LabGen.get_figure: the Figure, and the figures pool it leaves
get_figure(pool, figure_name, random) ==
    IF figure_name \in DOMAIN pool
    THEN [raised |-> "", value |-> pool[figure_name], figures |-> pool]
    ELSE IF figure_name \notin FigureFiles
    THEN [raised |-> "NoSuchFile", value |-> NoFigure, figures |-> pool]
    ELSE LET fig == Figure(figures_dir \o "/" \o figure_name, random)
         IN  [raised |-> "", value |-> fig, figures |-> FnPut(pool, figure_name, fig)]

\* cmd_fig_by_path
cmd_fig_by_path(path, label, hr_name, kwargs) ==
    "\\begin{figure}[h!]\n            \\noindent\\centering{\n"
        \o "                \\includegraphics[scale="
        \o (IF "scale" \in DOMAIN kwargs THEN kwargs["scale"] ELSE "1.0")
        \o "]{" \o path \o "}\n            }\n"
        \o "                \\caption{" \o hr_name \o "}\n"
        \o "            \\label{" \o label \o "}\n        \\end{figure}"

\* cmd_fig: the text, and the figures pool get_figure leaves
cmd_fig(pool, name, hr_name, kwargs, random) ==
    LET fig == get_figure(pool, name \o "." \o (IF "ext" \in DOMAIN kwargs THEN kwargs["ext"]
                                                ELSE "png"), random)
    IN  [raised |-> fig.raised,
         value |-> IF fig.raised # "" THEN ""
                   ELSE cmd_fig_by_path(fig.value.path, fig.value.label, hr_name, kwargs),
         figures |-> fig.figures]

\* the label find_variable gives by name: the tables pool first, the figures
\* pool last
find_variable(tables_pool, figures_pool) ==
    [n \in DOMAIN tables_pool \cup DOMAIN figures_pool |->
        IF n \in DOMAIN tables_pool THEN tables_pool[n] ELSE figures_pool[n].label]

\* cmd_ref: "\\ref{%s}" % (parser.find_variable(var_name).label,)
cmd_ref(pool, var_name) ==
    IF var_name \in DOMAIN pool
    THEN Converted("\\ref{" \o pool[var_name] \o "}")
    ELSE ConvertFailed("NoSuchVariable")

\* interceptor_func of invoke_commands at one match; asctime is what
\* time.asctime() returns at the call and random what random_str(4) does:
\* what replaces the match, the figures pool left, and the handler called
\* ("" when the call does not reach a handler)
command_site(tables_pool, figures_pool, match, asctime, random) ==
    IF match.group1 \notin DOMAIN COMMAND_DEFINITIONS
    THEN [raised |-> "UnknownCommand", value |-> "", figures |-> figures_pool, handler |-> ""]
    ELSE LET call == Command_call(COMMAND_DEFINITIONS[match.group1], parse_args(match.group2))
         IN  IF call.raised # ""
             THEN [raised |-> call.raised, value |-> "", figures |-> figures_pool, handler |-> ""]
             ELSE CASE match.group1 = "date" ->
                        [raised |-> "", value |-> asctime, figures |-> figures_pool,
                         handler |-> "date"]
                    [] match.group1 = "ref" ->
                        LET ref == cmd_ref(find_variable(tables_pool, figures_pool),
                                           call.positional[1])
                        IN  [raised |-> ref.raised, value |-> ref.value,
                             figures |-> figures_pool, handler |-> "ref"]
                    [] match.group1 = "fig" ->
                        LET fig == cmd_fig(figures_pool, call.positional[1], call.positional[2],
                                           call.kwargs, random)
                        IN  [raised |-> fig.raised, value |-> fig.value,
                             figures |-> fig.figures, handler |-> "fig"]

(***************************************************************************)
(* Each specification below runs one component; the variables of the       *)
(* other components rest at these values.                                  *)
(***************************************************************************)
ArgsIdle ==
    /\ arg_text = ""
    /\ arg_kwargs = EmptyDict
    /\ arg_pc = "idle"

BldIdle ==
    /\ builder = Builder_init(<<>>)
    /\ last_were_object = FALSE
    /\ lines = <<>>
    /\ bld_pc = "idle"

TplIdle ==
    /\ tpl_text = ""
    /\ tpl = Template_init("", "")
    /\ calls = <<>>
    /\ tpl_pc = "idle"

NoneMet == [name |-> "", outer |-> <<>>]

RenderIdle ==
    /\ templates = EmptyFn
    /\ tables = EmptyFn
    /\ figures = EmptyFn
    /\ expanded = EmptyFn
    /\ invoked = <<>>
    /\ files = <<>>
    /\ file_idx = 0
    /\ render_pc = "idle"
    /\ stack = <<>>
    /\ raised = ""
    /\ out_files = EmptyFn
    /\ rendered = EmptyFn
    /\ met = NoneMet

CmdIdle ==
    /\ cmd_method = [arg_names |-> <<"parser">>, var_kw |-> TRUE]
    /\ cmd_text = ""
    /\ cmd_call = NoCall
    /\ cmd_pc = "idle"

(***************************************************************************)
(* The metadata builder on its own: DatafileVariable.parse_metadata        *)
(* (labgen.py 229-239) fed one matched assignment line at a time, for a    *)
(* Plot or a Table (SpecBld) and for a Sample as well (SpecBldRequired),   *)
(* up to MaxLines lines.  A line is what METADATA_PATTERN yields:          *)
(* is_building_object_property, key, value.                                *)
(***************************************************************************)
Line(nested, key, value) == [nested |-> nested, key |-> key, value |-> value]

MetaLines ==
    { Line(FALSE, "curve", "c1"), Line(FALSE, "curve", "c2"),
      Line(FALSE, "axes", "a;b"), Line(FALSE, "cols", "a;b"),
      Line(TRUE, "x", "t"), Line(TRUE, "x", "u "), Line(TRUE, "y", "f(t)") }

\* the assignment lines fed to a Sample
SampleLines ==
    { Line(FALSE, "n", "7"), Line(FALSE, "point", "p1"), Line(FALSE, "point", "p2"),
      Line(FALSE, "unit", " cm"), Line(TRUE, "x", "2"), Line(TRUE, "y", "3") }

\* the lines fed to a builder of the given property set
LinesOf(possible_properties) ==
    IF possible_properties = SampleProperties THEN SampleLines ELSE MetaLines

BldInit ==
    /\ \E clazz \in {"Plot", "Table"} : builder = Builder_init(find_all_properties(clazz))
    /\ last_were_object = FALSE
    /\ lines = <<>>
    /\ bld_pc = "parsing"
    /\ ArgsIdle
    /\ CmdIdle
    /\ TplIdle
    /\ RenderIdle

\* a `.key=value` line: builder.put_into_object_builder(key, value)
NestedLine ==
    \E l \in LinesOf(builder.possible_properties) :
        /\ bld_pc = "parsing"
        /\ Len(lines) < MaxLines
        /\ l.nested
        /\ builder' = put_into_object_builder(builder, l.key, l.value)
        /\ lines' = Append(lines, l)
        /\ bld_pc' = IF builder'.raised # "" THEN "raised" ELSE "parsing"
        /\ UNCHANGED <<last_were_object, arg_vars, cmd_vars, tpl_vars, rnd_vars>>

\* a `key=value` line: flush when last_were_object, then builder.put(key, value)
TopLevelLine ==
    \E l \in LinesOf(builder.possible_properties) :
        /\ bld_pc = "parsing"
        /\ Len(lines) < MaxLines
        /\ ~l.nested
        /\ LET flushed == IF last_were_object THEN flush_object_builder(builder) ELSE builder
           IN  builder' = IF flushed.raised # "" THEN flushed
                          ELSE Builder_put(flushed, l.key, l.value)
        /\ lines' = Append(lines, l)
        /\ bld_pc' = IF builder'.raised # "" THEN "raised" ELSE "parsing"
        /\ UNCHANGED <<last_were_object, arg_vars, cmd_vars, tpl_vars, rnd_vars>>

\* the end of the text: self.metadata = builder.build()
EndOfInput ==
    /\ bld_pc = "parsing"
    /\ builder' = Builder_build(builder)
    /\ bld_pc' = IF builder'.raised # "" THEN "raised" ELSE "built"
    /\ UNCHANGED <<last_were_object, lines, arg_vars, cmd_vars, tpl_vars, rnd_vars>>

BldNext == NestedLine \/ TopLevelLine \/ EndOfInput

SpecBld == BldInit /\ [][BldNext]_vars

\* the same builder, for a property set with required properties as well
BldInitRequired ==
    /\ \E clazz \in {"Plot", "Table", "Sample"} :
            builder = Builder_init(find_all_properties(clazz))
    /\ last_were_object = FALSE
    /\ lines = <<>>
    /\ bld_pc = "parsing"
    /\ ArgsIdle
    /\ CmdIdle
    /\ TplIdle
    /\ RenderIdle

SpecBldRequired == BldInitRequired /\ [][BldNext]_vars

\* the declared kind of the key of a top-level line is not nested-object
NonNestedKind(l) ==
    /\ ~l.nested
    /\ HasProp(builder.possible_properties, l.key)
    /\ GetProp(builder.possible_properties, l.key).type # METADATA_VALUE_TYPE_BUILDER

\* C1: after every top-level line of a non-nested kind no ObjectBuilder is
\* active, and a `.key=value` line that directly follows such a line fails
\* with DanglingSubProperty.
C1_TopLevelLineFlushes ==
    LET n == Len(lines)
    IN  /\ (bld_pc = "parsing" /\ n >= 1 /\ NonNestedKind(lines[n]))
            => builder.object_builder = <<>>
        /\ (n >= 2 /\ lines[n].nested /\ NonNestedKind(lines[n - 1]))
            => (bld_pc = "raised" /\ builder.raised = "DanglingSubProperty")

\* the indices of the lines that open a sub-object of the multi-valued
\* nested-object property `curve`, in order
RECURSIVE OpeningsUpTo(_)
OpeningsUpTo(n) ==
    IF n = 0 THEN <<>>
    ELSE OpeningsUpTo(n - 1)
            \o (IF ~lines[n].nested /\ lines[n].key = "curve" THEN <<n>> ELSE <<>>)

Openings == OpeningsUpTo(Len(lines))

\* the sub-object the claim expects of the i-th opening: the trimmed title,
\* and for each property of Curve the trimmed sub-value given last between
\* this opening line and the next, or else the property's default
ExpectedCurve(i) ==
    LET from == Openings[i]
        to == IF i < Len(Openings) THEN Openings[i + 1] ELSE Len(lines) + 1
        Given(k) == {j \in (from + 1)..(to - 1) : lines[j].nested /\ lines[j].key = k}
    IN  [name |-> strip(lines[from].value),
         metadata |->
            [k \in {CurveProperties[j].name : j \in 1..Len(CurveProperties)} |->
                IF Given(k) # {}
                THEN strip(lines[CHOOSE j \in Given(k) : \A h \in Given(k) : h <= j].value)
                ELSE strip(GetProp(CurveProperties, k).default)]]

\* the sub-objects committed under `curve` so far
Committed ==
    IF "curve" \in DOMAIN builder.metadata THEN builder.metadata["curve"] ELSE <<>>

\* C2: with the property opened k times, the built metadata holds exactly k
\* sub-objects under it, in the order of their opening lines, each with the
\* sub-values given between its opening line and the next (defaults for the
\* rest); and while the ObjectBuilder of the i-th opening exists, the first
\* i-1 sub-objects are already committed, complete with their defaults.
C2_SubObjectsInOpeningOrder ==
    LET k == Len(Openings)
    IN  /\ bld_pc = "built"
            => /\ Committed = [i \in 1..k |-> ExpectedCurve(i)]
               /\ (k = 0 => "curve" \notin DOMAIN builder.metadata)
        /\ (bld_pc = "parsing" /\ builder.object_builder # <<>>)
            => /\ k >= 1
               /\ builder.object_builder[1].obj_name = strip(lines[Openings[k]].value)
               /\ Committed = [i \in 1..(k - 1) |-> ExpectedCurve(i)]

C2_TwoCurvesBuilt ==
    /\ bld_pc = "built"
    /\ Len(Committed) = 2
    /\ Committed[1].name = "c1" /\ Committed[1].metadata["x"] = "t"
    /\ Committed[1].metadata["y"] = "y"
    /\ Committed[2].name = "c2" /\ Committed[2].metadata["x"] = "u"

\* the declared properties that are not of nested-object kind
NonNestedProperties(props) ==
    {props[i] : i \in {j \in 1..Len(props) : props[j].type # METADATA_VALUE_TYPE_BUILDER}}

\* C12: for a property set in which every non-nested property has a default
\* (and one value, as every declared non-nested property has), building from
\* no assignment lines succeeds, and the metadata map has exactly one entry
\* per non-nested property: its default text converted with the converter
\* of its declared kind.
C12_EmptyInputGivesDefaults ==
    LET props == NonNestedProperties(builder.possible_properties)
    IN  (bld_pc \in {"built", "raised"} /\ lines = <<>>
            /\ \A p \in props : p.has_default /\ p.single_value)
        => /\ bld_pc = "built"
           /\ DOMAIN builder.metadata = {p.name : p \in props}
           /\ \A p \in props :
                builder.metadata[p.name] = CONVERTERS(p.type, strip(p.default)).value

\* a Table built from no lines: empty lists and the boolean of "0"
C12_TableFromDefaults ==
    /\ bld_pc = "built"
    /\ lines = <<>>
    /\ builder.possible_properties = TableProperties
    /\ DOMAIN builder.metadata = {"cols", "meta", "stack"}
    /\ builder.metadata["cols"] = <<>>
    /\ builder.metadata["meta"] = FALSE
    /\ builder.metadata["stack"] = <<>>

\* a step of parse_metadata that processes a `.key=value` line
NestedLineStep ==
    /\ bld_pc = "parsing"
    /\ Len(lines') = Len(lines) + 1
    /\ lines'[Len(lines')].nested

\* C14: a `.key=value` line processed while no ObjectBuilder is active fails
\* with DanglingSubProperty and leaves the metadata map as it was.
C14_DanglingLineRejected ==
    [][(NestedLineStep /\ builder.object_builder = <<>>)
        => /\ bld_pc' = "raised"
           /\ builder'.raised = "DanglingSubProperty"
           /\ builder'.metadata = builder.metadata]_vars

\* `.x=t` right after `axes=a;b` of a Plot: rejected, only axes is stored
C14_DanglingAfterAxes ==
    /\ bld_pc = "raised"
    /\ builder.raised = "DanglingSubProperty"
    /\ lines = <<Line(FALSE, "axes", "a;b"), Line(TRUE, "x", "t")>>
    /\ DOMAIN builder.metadata = {"axes"}
    /\ builder.metadata["axes"] = <<"a", "b">>

\* the declared non-nested properties of a builder that have no entry
Missing(b) ==
    {p \in NonNestedProperties(b.possible_properties) : p.name \notin DOMAIN b.metadata}

\* every declared non-nested property without an entry has a default
Completable(b) == \A p \in Missing(b) : p.has_default

\* the metadata of a builder with the converted default of every property
\* that has no entry, stored as put_processed stores it
WithDefaults(b) ==
    [name \in DOMAIN b.metadata \cup {p.name : p \in Missing(b)} |->
        IF name \in DOMAIN b.metadata THEN b.metadata[name]
        ELSE LET p == GetProp(b.possible_properties, name)
                 converted == CONVERTERS(p.type, strip(p.default)).value
             IN  IF p.single_value THEN converted ELSE <<converted>>]

\* the step of parse_metadata at the end of the text: builder.build()
EndOfInputStep ==
    /\ bld_pc = "parsing"
    /\ bld_pc' # "parsing"
    /\ lines' = lines

\* a step that processes a top-level line of a nested-object property
OpeningStep ==
    /\ bld_pc = "parsing"
    /\ Len(lines') = Len(lines) + 1
    /\ LET l == lines'[Len(lines')]
       IN  /\ ~l.nested
           /\ HasProp(builder.possible_properties, l.key)
           /\ GetProp(builder.possible_properties, l.key).type = METADATA_VALUE_TYPE_BUILDER

\* the sub-object of the active ObjectBuilder is the last one committed
\* under its property, with its defaults filled in
SubObjectCommitted ==
    LET ob == builder.object_builder[1]
        name == ob.property.name
        object == [name |-> ob.obj_name, metadata |-> WithDefaults(ob)]
    IN  /\ name \in DOMAIN builder'.metadata
        /\ IF ob.property.single_value THEN builder'.metadata[name] = object
           ELSE /\ Len(builder'.metadata[name]) >= 1
                /\ builder'.metadata[name][Len(builder'.metadata[name])] = object

\* C15: at build, a declared non-nested property with no entry gets its
\* converted default, or build fails with MissingRequiredProperty when it
\* has none; so after a successful build every declared non-nested property
\* has an entry; and a sub-object is completed by the same rule, over its
\* own property set, when its ObjectBuilder is flushed.
C15_DefaultsOrMissingRequired ==
    [][/\ (builder.object_builder # <<>> /\ (EndOfInputStep \/ OpeningStep))
            => LET ob == builder.object_builder[1]
               IN  IF Completable(ob)
                   THEN builder'.raised = "" => SubObjectCommitted
                   ELSE /\ builder'.raised = "MissingRequiredProperty"
                        /\ builder'.metadata = builder.metadata
       /\ EndOfInputStep
            => LET flushes == builder.object_builder = <<>>
                                \/ Completable(builder.object_builder[1])
               IN  /\ (flushes /\ ~Completable(builder))
                        => /\ builder'.raised = "MissingRequiredProperty"
                           /\ bld_pc' = "raised"
                   /\ (flushes /\ Completable(builder))
                        => /\ builder'.raised = ""
                           /\ bld_pc' = "built"
                   /\ builder'.raised = ""
                        => /\ Completable(builder)
                           /\ \A p \in NonNestedProperties(builder.possible_properties) :
                                /\ p.name \in DOMAIN builder'.metadata
                                /\ builder'.metadata[p.name] = WithDefaults(builder)[p.name]]_vars

\* a Sample given its required `n` and a Point given its required `x`:
\* built, with `unit` and the Point's `y` from their defaults
C15_SampleCompleted ==
    /\ bld_pc = "built"
    /\ lines = <<Line(FALSE, "n", "7"), Line(FALSE, "point", "p1"), Line(TRUE, "x", "2")>>
    /\ DOMAIN builder.metadata = {"n", "point", "unit"}
    /\ builder.metadata["n"] = 7
    /\ builder.metadata["unit"] = "mm"
    /\ builder.metadata["point"] = <<[name |-> "p1", metadata |-> ("x" :> 2 @@ "y" :> 0)]>>

(***************************************************************************)
(* One template on its own: a definition of up to MaxParams parameter      *)
(* lines and one body line is made a Template (Template.__init__,          *)
(* labgen.py 408-411), then invoked: the argument text is parsed and the   *)
(* body interpolated (labgen.py 676, 682).                                 *)
(***************************************************************************)
DeclLines == {"++x", "++x=1", "++y", "++y=d e"}

RECURSIVE SeqsUpTo(_, _)
SeqsUpTo(S, n) ==
    IF n = 0 THEN {<<>>}
    ELSE LET P == SeqsUpTo(S, n - 1) IN P \cup {Append(p, e) : p \in P, e \in S}

BodyLines == {"lit", "<%%x>", "%%y%%x", "%%q %%x", "%%x%%q"}

\* definitions with option lines, with more than one body line, with a
\* blank line inside the body
OptionTexts ==
    {"\n@@wrap-newlines\nlit\n", "\nlit\n\nmore\n", "\n@@wrap-newlines\n++x=1\nlit\nmore\n",
     "\n@@other\nlit\n", "lit\nmore"}

TemplateTexts ==
    {"\n" \o join_lines(d \o <<b>>) \o "\n" : d \in SeqsUpTo(DeclLines, MaxParams), b \in BodyLines}
        \cup OptionTexts

CallItems == {"1", "x=1", "x=", "y=v w"}

\* "|".join(items)
RECURSIVE join_items(_)
join_items(items) ==
    IF items = <<>> THEN ""
    ELSE IF Len(items) = 1 THEN items[1]
    ELSE items[1] \o "|" \o join_items(Tail(items))

CallTexts == {join_items(c) : c \in SeqsUpTo(CallItems, MaxCallItems)}

CallValues == {"1", "v w", " "}

\* the keys of the parameter lines of a definition text, in the order of
\* the lines
DeclaredKeys(text) ==
    LET ls == SelectSeq(split(text, "\n"), LAMBDA l : startswith(l, "++"))
    IN  [i \in 1..Len(ls) |->
            strip(SubSeq(ls[i], 3, SkipTo(ls[i], 1, "=") - 1))]

Call(text) == [args |-> text, result |-> interpolate_params(tpl, parse_args(text))]

TplInit ==
    /\ tpl_text \in TemplateTexts
    /\ tpl = Template_init("", "")
    /\ calls = <<>>
    /\ tpl_pc = "define"
    /\ ArgsIdle
    /\ CmdIdle
    /\ BldIdle
    /\ RenderIdle

\* Template(name, body): parse_body and _apply_options
DefineTemplate ==
    /\ tpl_pc = "define"
    /\ tpl' = Template_init("t", tpl_text)
    /\ tpl_pc' = "ready"
    /\ UNCHANGED <<tpl_text, calls, arg_vars, cmd_vars, bld_vars, rnd_vars>>

\* one invocation site with any argument text
Invoke ==
    /\ tpl_pc = "ready"
    /\ \E text \in CallTexts : calls' = <<Call(text)>>
    /\ tpl_pc' = "called"
    /\ UNCHANGED <<tpl_text, tpl, arg_vars, cmd_vars, bld_vars, rnd_vars>>

\* two invocation sites that give every declared parameter the same value:
\* the first by name (in any order of the items), the second by bare items
\* in the order of the declaration lines
InvokeBothWays ==
    /\ tpl_pc = "ready"
    /\ LET keys == DeclaredKeys(tpl_text)
           N == Len(keys)
       IN  /\ N >= 1
           /\ \E values \in [1..N -> CallValues] :
              \E order \in {f \in [1..N -> 1..N] : \A i, j \in 1..N : f[i] = f[j] => i = j} :
                  calls' = << Call(join_items([i \in 1..N |-> keys[order[i]] \o "=" \o values[order[i]]])),
                              Call(join_items(values)) >>
    /\ tpl_pc' = "called"
    /\ UNCHANGED <<tpl_text, tpl, arg_vars, cmd_vars, bld_vars, rnd_vars>>

TplNext == DefineTemplate \/ Invoke \/ InvokeBothWays

SpecTpl == TplInit /\ [][TplNext]_vars

\* the items of an argument text, as ARGS_ITEM_PATTERN cuts them
call_items(text) == items_from(text, 1)

\* the names of the placeholders of a body, left to right
RECURSIVE placeholders(_)
placeholders(string) ==
    LET match == PARAM_INTERPOLATION_PATTERN(string)
    IN  IF ~match.found THEN <<>>
        ELSE <<match.group1>> \o placeholders(SubSeq(string, match.end, Len(string)))

\* the two invocations of InvokeBothWays are the claim's pair: the declared
\* names are distinct, the first call is N named items (one per declared
\* name), the second N bare items, and each parameter has the same value in
\* both
BothWaysCase ==
    /\ tpl_pc = "called"
    /\ Len(calls) = 2
    /\ LET keys == DeclaredKeys(tpl_text)
           N == Len(keys)
           by_name == call_items(calls[1].args)
           by_position == call_items(calls[2].args)
       IN  /\ N >= 1
           /\ \A i, j \in 1..N : keys[i] = keys[j] => i = j
           /\ Len(by_name) = N
           /\ Len(by_position) = N
           /\ \A i \in 1..N : by_name[i].has_key /\ ~by_position[i].has_key
           /\ \A i \in 1..N : \E j \in 1..N :
                 /\ by_name[j].group1 = keys[i]
                 /\ strip(by_name[j].group2) = strip(by_position[i].group3)

\* C3: for a template whose N declared parameters have distinct names, the
\* invocation that supplies the N values by name and the invocation that
\* supplies the same values as bare items in declaration order have the
\* same outcome: the same expansion, or the same failure.
C3_NamedEqualsPositional ==
    BothWaysCase => calls[1].result = calls[2].result

\* two parameters with different values, both used by the body, and both
\* invocations expanded
C3_BothWaysExpanded ==
    /\ BothWaysCase
    /\ Len(DeclaredKeys(tpl_text)) = 2
    /\ placeholders(tpl.body) = <<"y", "x">>
    /\ calls[1].result.raised = ""
    /\ calls[2].result = [raised |-> "", value |-> "v w1"]

\* parameter p is declared without a default and the call has no value for
\* it: no item named p, and no bare item at p's position, whether the
\* position counts the bare items alone or all the items
Omitted(c, p) ==
    LET items == call_items(c.args)
        position == tpl.param_positions[p]
    IN  /\ p \in DOMAIN tpl.param_map
        /\ tpl.param_map[p].none
        /\ \A i \in 1..Len(items) : items[i].has_key => items[i].group1 # p
        /\ \A i \in 1..Len(items) : ~items[i].has_key => i - 1 # position
        /\ Len(SelectSeq(items, LAMBDA it : ~it.has_key)) <= position

\* the first placeholder of p in the body, 0 if there is none
FirstUse(p) ==
    LET names == placeholders(tpl.body)
        S == {i \in 1..Len(names) : names[i] = p}
    IN  IF S = {} THEN 0 ELSE Min(S)

UndeclaredBefore(n) ==
    LET names == placeholders(tpl.body)
    IN  \E i \in 1..(n - 1) : names[i] \notin DOMAIN tpl.param_positions

RemainingLines(text) ==
    SelectSeq(split(text, "\n"),
              LAMBDA l : ~startswith(l, OPT_DEFINITION) /\ ~startswith(l, PARAM_DEFINITION))

\* the blank-line-padding option is among the option lines of the text
PaddingOption(text) ==
    LET ls == split(text, "\n")
    IN  \E i \in 1..Len(ls) : ls[i] = OPT_DEFINITION \o "wrap-newlines"

Padded(text, body) == IF PaddingOption(text) THEN "\n" \o body \o "\n" ELSE body

\* the template has no placeholder and no invocation site in its body, and
\* it has been invoked
PlainTemplateInvoked ==
    /\ tpl_pc = "called"
    /\ ~PARAM_INTERPOLATION_PATTERN(tpl.body).found
    /\ ~INVOCATION_PATTERN("#", tpl.body).found

\* C13 as stated: a template with no placeholders and no invocations
\* expands to the non-option, non-parameter lines of its definition joined
\* by newlines, between two newlines when the padding option is set.
C13_ExpandsToRemainingLines ==
    PlainTemplateInvoked
        => \A k \in 1..Len(calls) :
            calls[k].result = Converted(Padded(tpl_text, join_lines(RemainingLines(tpl_text))))

\* C13, amended: a template with no placeholders and no invocations expands
\* to the non-empty non-option, non-parameter lines of its definition joined
\* by newlines, between two newlines when the padding option is set; the
\* option lines leave the declared parameters and their positions alone.
C13_ExpandsToNonEmptyRemainingLines ==
    PlainTemplateInvoked
        => /\ \A k \in 1..Len(calls) :
                calls[k].result =
                    Converted(Padded(tpl_text,
                        join_lines(SelectSeq(RemainingLines(tpl_text), LAMBDA l : l # ""))))
           /\ DOMAIN tpl.param_positions =
                {DeclaredKeys(tpl_text)[i] : i \in 1..Len(DeclaredKeys(tpl_text))}
           /\ DOMAIN tpl.param_map = DOMAIN tpl.param_positions

\* two body lines under the padding option, invoked with an argument
C13_PaddedBody ==
    /\ tpl_pc = "called"
    /\ tpl_text = "\n@@wrap-newlines\n++x=1\nlit\nmore\n"
    /\ Len(calls) = 1
    /\ calls[1].args = "x=1"
    /\ calls[1].result = Converted("\nlit\nmore\n")

\* the value the resolution order gives placeholder p of a declared
\* parameter: the call-site value by name, else the call-site value under
\* p's position, else the default by name (no default is stored under a
\* position); [found, value]
Resolved(substitution, p) ==
    LET position == tpl.param_positions[p]
    IN  IF p \in DOMAIN substitution.named
        THEN [found |-> TRUE, value |-> substitution.named[p]]
        ELSE IF position \in DOMAIN substitution.pos
        THEN [found |-> TRUE, value |-> substitution.pos[position]]
        ELSE IF ~tpl.param_map[p].none
        THEN [found |-> TRUE, value |-> tpl.param_map[p].value]
        ELSE [found |-> FALSE, value |-> ""]

\* the body with every placeholder replaced by its resolved value
RECURSIVE Substituted(_, _)
Substituted(substitution, string) ==
    LET match == PARAM_INTERPOLATION_PATTERN(string)
    IN  IF ~match.found THEN string
        ELSE before(string, match) \o Resolved(substitution, match.group1).value
                \o Substituted(substitution, SubSeq(string, match.end, Len(string)))

\* every placeholder of the body is of a declared parameter
AllDeclared ==
    \A i \in 1..Len(placeholders(tpl.body)) :
        placeholders(tpl.body)[i] \in DOMAIN tpl.param_positions

\* C16: each placeholder of a declared parameter gets the first value found
\* in the order call-site by name, call-site by position, template default;
\* so a call-site value beats the default and a value by name beats a
\* value by position.
C16_ResolutionOrder ==
    (tpl_pc = "called" /\ AllDeclared)
        => \A k \in 1..Len(calls) :
            LET substitution == parse_args(calls[k].args)
                names == placeholders(tpl.body)
            IN  IF \A i \in 1..Len(names) : Resolved(substitution, names[i]).found
                THEN calls[k].result = Converted(Substituted(substitution, tpl.body))
                ELSE calls[k].result.raised # ""

\* y has a default, a call-site value under its position 1 and a call-site
\* value by name: the value by name is taken; x has only its default
C16_NameBeatsPositionBeatsDefault ==
    /\ tpl_pc = "called"
    /\ tpl_text = "\n++x=1\n++y=d e\n%%y%%x\n"
    /\ Len(calls) = 1
    /\ calls[1].args = "y=v w|1"
    /\ tpl.param_positions["y"] = 1
    /\ tpl.param_map["y"] = Some("d e")
    /\ parse_args(calls[1].args) = [pos |-> (1 :> "1"), named |-> ("y" :> "v w")]
    /\ calls[1].result = Converted("v w1")

\* the placeholders of the body, by index, that get no value from the
\* substitution: of an undeclared name, or declared and found nowhere
Failing(substitution) ==
    LET names == placeholders(tpl.body)
    IN  {i \in 1..Len(names) :
            \/ names[i] \notin DOMAIN tpl.param_positions
            \/ ~Resolved(substitution, names[i]).found}

\* C17: the expansion fails at the first placeholder, left to right, that
\* gets no value: with UndefinedParameter when its name is not declared,
\* whatever the call site supplies under that name, and with
\* UnresolvedParameter when it is declared and no location has a value.
C17_UndefinedOrUnresolved ==
    tpl_pc = "called"
        => \A k \in 1..Len(calls) :
            LET F == Failing(parse_args(calls[k].args))
                names == placeholders(tpl.body)
            IN  IF F = {} THEN calls[k].result.raised = ""
                ELSE calls[k].result.raised =
                        (IF names[Min(F)] \notin DOMAIN tpl.param_positions
                         THEN "UndefinedParameter" ELSE "UnresolvedParameter")

\* y is not declared and the call site has y=v w: UndefinedParameter
C17_UndeclaredWithCallSiteValue ==
    /\ tpl_pc = "called"
    /\ tpl_text = "\n++x\n%%y%%x\n"
    /\ Len(calls) = 1
    /\ calls[1].args = "y=v w"
    /\ parse_args(calls[1].args).named = ("y" :> "v w")
    /\ "y" \notin DOMAIN tpl.param_positions
    /\ calls[1].result.raised = "UndefinedParameter"

\* the position a name received at its first declaration: the number of
\* parameter lines before that line
FirstDeclared(text, key) ==
    LET keys == DeclaredKeys(text)
    IN  Min({i \in 1..Len(keys) : keys[i] = key}) - 1

\* C18: after parsing, each declared parameter name has the position it
\* received at its first declaration, whatever lines declare it again, and
\* distinct names have distinct positions.
C18_PositionsNeverRenumbered ==
    tpl_pc \in {"ready", "called"}
        => /\ \A key \in DOMAIN tpl.param_positions :
                tpl.param_positions[key] = FirstDeclared(tpl_text, key)
           /\ \A p, q \in DOMAIN tpl.param_positions :
                tpl.param_positions[p] = tpl.param_positions[q] => p = q

(***************************************************************************)
(* render_files over one or two files (labgen.py 751-763): each source     *)
(* file is rendered, templates first and commands second (701-705), and    *)
(* written out (774-786).  An exception that leaves render leaves          *)
(* render_files too: nothing on the way catches it.                        *)
(***************************************************************************)
Registry ==
    [n \in {"a", "b", "c", "p", "s"} |->
        Template_init(n, CASE n = "a" -> "++x=0\n#a||x=1||"
                           [] n = "b" -> "#c"
                           [] n = "c" -> "<#b>"
                           [] n = "p" -> "++x\n[%%x]"
                           [] n = "s" -> "#p||1||#p||2||")]

Registries == {Registry, [n \in {"a", "b", "p"} |-> Registry[n]]}

Pools == {[n \in {"t1"} |-> "label_t1_0f3a"]}

\* the figures pool as _load_figures leaves it for the files of figures_dir:
\* the key and the path without the extension
FigurePools == {[n \in {"pic"} |-> Figure(figures_dir \o "/" \o n, "0f3a")]}

\* what random_str(4) may return
RandomStrs == {"0f3a", "b7c2"}

SourceFiles ==
    {[ext |-> "lgs", string |-> t] :
        t \in {"lit", "#b", "x#a", "#p||#a||", "#p||1|| @date", "#p",
               "@ref||t1||", "@ref||var_name=t1||", "@ref||t2||", "@date @nope", "#p||y=1||",
               "#p||1|| #p||2||", "#s#p||3||"}}
    \cup {[ext |-> "lgd", string |-> "#a"]}

FileLists == {<<f>> : f \in SourceFiles} \cup {<<f, g>> : f, g \in SourceFiles}

Times == {"Mon", "Tue"}

RenderInit ==
    /\ templates \in Registries
    /\ tables \in Pools
    /\ figures \in FigurePools
    /\ expanded = EmptyFn
    /\ invoked = <<>>
    /\ files \in FileLists
    /\ file_idx = 1
    /\ render_pc = "next"
    /\ stack = <<>>
    /\ raised = ""
    /\ out_files = EmptyFn
    /\ rendered = EmptyFn
    /\ met = NoneMet
    /\ ArgsIdle
    /\ CmdIdle
    /\ BldIdle
    /\ TplIdle

top == stack[Len(stack)]

\* the exception leaves render and render_files
Abort(kind) ==
    /\ raised' = kind
    /\ render_pc' = "raised"

\* action of render_files on a file that is no source file: return
SkipFile ==
    /\ render_pc = "next"
    /\ file_idx <= Len(files)
    /\ files[file_idx].ext # "lgs"
    /\ file_idx' = file_idx + 1
    /\ UNCHANGED <<templates, tables, figures, expanded, invoked,
                   files, render_pc, stack, raised, out_files,
                   rendered, met, arg_vars, cmd_vars, bld_vars, tpl_vars>>

\* action of render_files on a source file, up to the call of
\* resolve_templates: _resolve_templates(string, [], 0)
RenderFile ==
    /\ render_pc = "next"
    /\ file_idx <= Len(files)
    /\ files[file_idx].ext = "lgs"
    /\ stack' = <<Frame("", files[file_idx].string)>>
    /\ render_pc' = "stage1"
    /\ UNCHANGED <<templates, tables, figures, expanded, invoked,
                   files, file_idx, raised, out_files,
                   rendered, met, arg_vars, cmd_vars, bld_vars, tpl_vars>>

\* interceptor_func of _resolve_templates at the next invocation, up to the
\* nested call of _resolve_templates: [raised, value], value the
\* interpolated body
template_site(match, outer) ==
    IF recursive_call(match.group1, outer)
    THEN ConvertFailed("DirectRecursionDetected")
    ELSE IF match.group1 \notin DOMAIN templates
    THEN ConvertFailed("KeyError")
    ELSE interpolate_params(templates[match.group1], parse_args(match.group2))

\* the next invocation is expanded: its interpolated body is substituted by
\* a nested call of _resolve_templates
ExpandInvocation ==
    /\ render_pc = "stage1"
    /\ LET match == INVOCATION_PATTERN("#", top.todo)
           outer == outer_templates(stack)
           site == template_site(match, outer)
       IN  /\ match.found
           /\ site.raised = ""
           /\ Len(outer) < RecursionLimit
           /\ met' = [name |-> match.group1, outer |-> outer]
           /\ stack' = [stack EXCEPT ![Len(stack)] =
                            [top EXCEPT !.todo = after(top.todo, match),
                                        !.done = top.done \o before(top.todo, match)]]
                       \o <<Frame(match.group1, site.value)>>
    /\ UNCHANGED <<templates, tables, figures, expanded, invoked,
                   files, file_idx, render_pc, raised, out_files,
                   rendered, arg_vars, cmd_vars, bld_vars, tpl_vars>>

\* the next invocation raises: direct recursion, no such template, or a
\* placeholder without a value
ExpandRaise ==
    /\ render_pc = "stage1"
    /\ LET match == INVOCATION_PATTERN("#", top.todo)
           outer == outer_templates(stack)
           site == template_site(match, outer)
       IN  /\ match.found
           /\ site.raised # ""
           /\ met' = [name |-> match.group1, outer |-> outer]
           /\ Abort(site.raised)
    /\ UNCHANGED <<templates, tables, figures, expanded, invoked,
                   files, file_idx, stack, out_files,
                   rendered, arg_vars, cmd_vars, bld_vars, tpl_vars>>

\* the nested call does not fit on the interpreter's call stack
StackExhausted ==
    /\ render_pc = "stage1"
    /\ LET match == INVOCATION_PATTERN("#", top.todo)
           outer == outer_templates(stack)
           site == template_site(match, outer)
       IN  /\ match.found
           /\ site.raised = ""
           /\ Len(outer) >= RecursionLimit
           /\ met' = [name |-> match.group1, outer |-> outer]
           /\ Abort("RecursionError")
    /\ UNCHANGED <<templates, tables, figures, expanded, invoked,
                   files, file_idx, stack, out_files,
                   rendered, arg_vars, cmd_vars, bld_vars, tpl_vars>>

\* a nested call of _resolve_templates has no invocation left and returns:
\* its result replaces the invocation in the caller's string
ExpandReturn ==
    /\ render_pc = "stage1"
    /\ Len(stack) > 1
    /\ ~INVOCATION_PATTERN("#", top.todo).found
    /\ LET caller == stack[Len(stack) - 1]
       IN  stack' = [SubSeq(stack, 1, Len(stack) - 1) EXCEPT ![Len(stack) - 1] =
                        [caller EXCEPT !.done = caller.done \o top.done \o top.todo]]
    /\ UNCHANGED <<templates, tables, figures, expanded, invoked,
                   files, file_idx, render_pc, raised, out_files,
                   rendered, met, arg_vars, cmd_vars, bld_vars, tpl_vars>>

\* resolve_templates returns; render goes on to invoke_commands(string)
ResolveTemplatesReturn ==
    /\ render_pc = "stage1"
    /\ Len(stack) = 1
    /\ ~INVOCATION_PATTERN("#", top.todo).found
    /\ stack' = <<Frame("", top.done \o top.todo)>>
    /\ expanded' = FnPut(expanded, file_idx, top.done \o top.todo)
    /\ render_pc' = "stage2"
    /\ UNCHANGED <<templates, tables, figures, invoked, files, file_idx, raised, out_files,
                   rendered, met, arg_vars, cmd_vars, bld_vars, tpl_vars>>

\* InvokeCommand on the source text, before its templates are resolved
InvokeCommand_before_templates ==
    /\ render_pc = "stage1"
    /\ Len(stack) = 1
    /\ LET match == INVOCATION_PATTERN("@", top.todo)
       IN  /\ match.found
           /\ \E asctime \in Times, random \in RandomStrs :
                LET site == command_site(tables, figures, match, asctime, random)
                IN  /\ site.raised = ""
                    /\ stack' = <<[top EXCEPT !.todo = before(top.todo, match) \o site.value
                                                           \o after(top.todo, match)]>>
                    /\ figures' = site.figures
                    /\ invoked' = Append(invoked, [file |-> file_idx, name |-> site.handler])
    /\ UNCHANGED <<templates, tables, expanded, files, file_idx, render_pc, raised, out_files,
                   rendered, met, arg_vars, cmd_vars, bld_vars, tpl_vars>>

\* the next command invocation is replaced by what its handler returns
InvokeCommand ==
    /\ render_pc = "stage2"
    /\ LET match == INVOCATION_PATTERN("@", top.todo)
       IN  /\ match.found
           /\ \E asctime \in Times, random \in RandomStrs :
                LET site == command_site(tables, figures, match, asctime, random)
                IN  /\ site.raised = ""
                    /\ stack' = <<[top EXCEPT !.todo = after(top.todo, match),
                                              !.done = top.done \o before(top.todo, match)
                                                           \o site.value]>>
                    /\ figures' = site.figures
                    /\ invoked' = Append(invoked, [file |-> file_idx, name |-> site.handler])
    /\ UNCHANGED <<templates, tables, expanded, files, file_idx, render_pc, raised, out_files,
                   rendered, met, arg_vars, cmd_vars, bld_vars, tpl_vars>>

\* CommandRaise that leaves the text rendered so far in the output directory
CommandRaise_keeps_partial ==
    /\ render_pc = "stage2"
    /\ LET match == INVOCATION_PATTERN("@", top.todo)
           site == command_site(tables, figures, match, "Mon", "0f3a")
       IN  /\ match.found
           /\ site.raised # ""
           /\ invoked' = IF site.handler = "" THEN invoked
                         ELSE Append(invoked, [file |-> file_idx, name |-> site.handler])
           /\ Abort(site.raised)
    /\ out_files' = FnPut(out_files, file_idx, top.done \o top.todo)
    /\ UNCHANGED <<templates, tables, figures, expanded, files, file_idx, stack,
                   rendered, met, arg_vars, cmd_vars, bld_vars, tpl_vars>>

\* the next command invocation raises: no such command, a parameter of the
\* handler without an argument, a keyword the call cannot take, or no such
\* variable
CommandRaise ==
    /\ render_pc = "stage2"
    /\ LET match == INVOCATION_PATTERN("@", top.todo)
           site == command_site(tables, figures, match, "Mon", "0f3a")
       IN  /\ match.found
           /\ site.raised # ""
           /\ invoked' = IF site.handler = "" THEN invoked
                         ELSE Append(invoked, [file |-> file_idx, name |-> site.handler])
           /\ Abort(site.raised)
    /\ UNCHANGED <<templates, tables, figures, expanded, files, file_idx, stack, out_files,
                   rendered, met, arg_vars, cmd_vars, bld_vars, tpl_vars>>

\* invoke_commands has no invocation left: render returns the string
RenderReturn ==
    /\ render_pc = "stage2"
    /\ ~INVOCATION_PATTERN("@", top.todo).found
    /\ rendered' = FnPut(rendered, file_idx, top.done \o top.todo)
    /\ stack' = <<>>
    /\ render_pc' = "write"
    /\ UNCHANGED <<templates, tables, figures, expanded, invoked,
                   files, file_idx, raised, out_files,
                   met, arg_vars, cmd_vars, bld_vars, tpl_vars>>

\* _write_out_file: the file is opened and the contents written
WriteOutFile ==
    /\ render_pc = "write"
    /\ out_files' = FnPut(out_files, file_idx, rendered[file_idx])
    /\ file_idx' = file_idx + 1
    /\ render_pc' = "next"
    /\ UNCHANGED <<templates, tables, figures, expanded, invoked,
                   files, stack, raised, rendered, met,
                   arg_vars, cmd_vars, bld_vars, tpl_vars>>

\* _write_out_file: open or write fails; the exception is logged and
\* dropped, leaving no file or a file cut short
WriteOutFileFails ==
    /\ render_pc = "write"
    /\ \/ UNCHANGED out_files
       \/ \E n \in 0..(Len(rendered[file_idx]) - 1) :
            out_files' = FnPut(out_files, file_idx, SubSeq(rendered[file_idx], 1, n))
    /\ file_idx' = file_idx + 1
    /\ render_pc' = "next"
    /\ UNCHANGED <<templates, tables, figures, expanded, invoked,
                   files, stack, raised, rendered, met,
                   arg_vars, cmd_vars, bld_vars, tpl_vars>>

RenderNext ==
    \/ SkipFile
    \/ RenderFile
    \/ ExpandInvocation
    \/ ExpandRaise
    \/ StackExhausted
    \/ ExpandReturn
    \/ ResolveTemplatesReturn
    \/ InvokeCommand
    \/ CommandRaise
    \/ RenderReturn
    \/ WriteOutFile
    \/ WriteOutFileFails

SpecRender == RenderInit /\ [][RenderNext]_vars

\* the same run over source files that place figures
FigureSourceFiles ==
    {[ext |-> "lgs", string |-> t] :
        t \in {"@fig||pic|c||", "@fig||no|c||", "#b", "#p||1|| @date", "#p @date"}}
    \cup {[ext |-> "lgd", string |-> "#a"]}

FigureFileLists ==
    {<<f>> : f \in FigureSourceFiles} \cup {<<f, g>> : f, g \in FigureSourceFiles}

RenderFiguresInit ==
    /\ templates \in Registries
    /\ tables \in Pools
    /\ figures \in FigurePools
    /\ expanded = EmptyFn
    /\ invoked = <<>>
    /\ files \in FigureFileLists
    /\ file_idx = 1
    /\ render_pc = "next"
    /\ stack = <<>>
    /\ raised = ""
    /\ out_files = EmptyFn
    /\ rendered = EmptyFn
    /\ met = NoneMet
    /\ ArgsIdle
    /\ CmdIdle
    /\ BldIdle
    /\ TplIdle

SpecRenderFigures == RenderFiguresInit /\ [][RenderNext]_vars

\* the names of the invocations of a source text, left to right
RECURSIVE invoked_names(_)
invoked_names(string) ==
    LET match == INVOCATION_PATTERN("#", string)
    IN  IF ~match.found THEN {}
        ELSE {match.group1} \cup invoked_names(after(string, match))

\* C5: whenever an invocation of template `name` is met while the top of the
\* stack of templates being expanded is `name`, the expansion fails with
\* DirectRecursionDetected; and no source text that invokes `a`, whose body
\* is `#a||x=1||`, is ever rendered.
C5_DirectRecursionDetected ==
    /\ (met.outer # <<>> /\ met.name = met.outer[Len(met.outer)])
            => render_pc = "raised" /\ raised = "DirectRecursionDetected"
    /\ \A i \in DOMAIN rendered :
            templates["a"].body = "#a||x=1||" => "a" \notin invoked_names(files[i].string)

\* `a` is met inside `a`, itself invoked from the body of `p`, and the
\* render has failed
C5_RecursionInsideNested ==
    /\ met = [name |-> "a", outer |-> <<"p", "a">>]
    /\ raised = "DirectRecursionDetected"
    /\ render_pc = "raised"
    /\ file_idx \notin DOMAIN rendered

\* C6: the expansion of an indirect cycle (`b` invokes `#c`, `c` invokes
\* `#b`) is stopped by a depth bound of the expander itself, with an error
\* of its own; it never runs on until the interpreter's call stack is used up.
C6_DepthBoundEnforced ==
    raised # "RecursionError"

\* contents is text of string from its start
IsPrefix(contents, string) ==
    Len(contents) <= Len(string) /\ SubSeq(string, 1, Len(contents)) = contents

\* C10: once an error is raised in the render of a source file there is no
\* output file for it; an output file exists only for a file whose render
\* has returned, and holds the returned string (cut short at most by a
\* failed write), never the text of a render under way.
C10_NoOutputWithoutCompleteRender ==
    /\ render_pc = "raised" => file_idx \notin DOMAIN out_files
    /\ render_pc \in {"stage1", "stage2", "write"} => file_idx \notin DOMAIN out_files
    /\ \A i \in DOMAIN out_files :
            /\ i \in DOMAIN rendered
            /\ IsPrefix(out_files[i], rendered[i])
            /\ i < file_idx

\* the first file is written in full, and the render of the second, after
\* one command was replaced, fails at the next and leaves no output
C10_SecondFileAborted ==
    /\ render_pc = "raised"
    /\ file_idx = 2
    /\ 1 \in DOMAIN out_files /\ out_files[1] = rendered[1]
    /\ stack # <<>> /\ top.done # ""
    /\ raised = "UnknownCommand"
    /\ 2 \notin DOMAIN out_files

\* a source file after the current one is still to be rendered
LaterSourceFile ==
    \E j \in (file_idx + 1)..Len(files) : files[j].ext = "lgs"

\* render_files is over: an exception has left it (nothing on the way
\* catches one), or its loop has handled every file
RunOver ==
    render_pc = "raised" \/ (render_pc = "next" /\ file_idx > Len(files))

\* C11: a render failure in one file is isolated to that file: render_files
\* goes on to every later source file, so it is never over while a later
\* source file is still unrendered.
C11_FailureIsolated ==
    LaterSourceFile => ~RunOver

\* a step of _resolve_templates that meets an invocation: it goes into the
\* nested call, or it raises
InvocationStep ==
    /\ render_pc = "stage1"
    /\ Len(stack') = Len(stack) + 1 \/ render_pc' = "raised"

\* C21: the stack seen at an invocation site is the sequence of the names of
\* the templates under expansion on the way from the source text down to
\* the site: empty at a site of the source text, the caller's stack and the
\* caller's name at a site of a template body, and without the name of a
\* template once its expansion has returned; so DirectRecursionDetected is
\* raised only for a template met in its own body, never for an invocation
\* that follows another one of the same template at the same level.
C21_StackIsPath ==
    [][InvocationStep
        => LET path == [i \in 1..(Len(stack) - 1) |-> stack[i + 1].name]
           IN  /\ met'.outer = path
               /\ Len(stack) = 1 => met'.outer = <<>>
               /\ raised' = "DirectRecursionDetected"
                    => (path # <<>> /\ met'.name = path[Len(path)])
               /\ Len(stack') = Len(stack) + 1
                    => stack'[Len(stack')].name = met'.name]_vars

\* `#s#p||3||`: `s` has expanded to [1][2] by two invocations of `p` that saw
\* the stack <<s>>, it has returned, and the `p` that follows in the source
\* text is met with an empty stack and expanded
C21_SiblingAfterReturn ==
    /\ files = <<[ext |-> "lgs", string |-> "#s#p||3||"]>>
    /\ file_idx = 1
    /\ render_pc = "stage1"
    /\ Len(stack) = 2
    /\ stack[1].done = "[1][2]"
    /\ stack[2] = [name |-> "p", todo |-> "[3]", done |-> ""]
    /\ met = [name |-> "p", outer |-> <<>>]

\* C19: while render_files runs, the Template Registry and the pools of the
\* Variable Store hold the entries they held when it began (the Command
\* Registry, COMMAND_DEFINITIONS, is fixed when the module is loaded).
C19_StoresNotMutated ==
    /\ templates \in Registries
    /\ tables \in Pools
    /\ figures \in FigurePools

\* the string is the end of the text
IsSuffix(string, text) ==
    /\ Len(string) <= Len(text)
    /\ SubSeq(text, Len(text) - Len(string) + 1, Len(text)) = string

\* C20: a command handler is called for a file only after resolve_templates
\* has returned for that file; when the expansion of a file raises, no
\* handler has been called for it; and the text invoke_commands scans is
\* the text resolve_templates returned.
C20_HandlersAfterExpansion ==
    /\ \A k \in 1..Len(invoked) : invoked[k].file \in DOMAIN expanded
    /\ (render_pc = "raised" /\ file_idx \notin DOMAIN expanded)
            => \A k \in 1..Len(invoked) : invoked[k].file # file_idx
    /\ render_pc = "stage2"
            => /\ file_idx \in DOMAIN expanded
               /\ IsSuffix(top.todo, expanded[file_idx])

\* the command of the first file is dispatched on the expanded text; the
\* expansion of the second file raises and its command is never called
C20_DateAfterExpansion ==
    /\ files = <<[ext |-> "lgs", string |-> "#p||1|| @date"],
                 [ext |-> "lgs", string |-> "#p @date"]>>
    /\ expanded = (1 :> "[1] @date")
    /\ invoked = <<[file |-> 1, name |-> "date"]>>
    /\ render_pc = "raised"
    /\ raised = "UnresolvedParameter"
    /\ file_idx = 2

(***************************************************************************)
(* The dispatcher on its own: a handler signature and an argument text of  *)
(* up to MaxCmdItems items; invoke_commands parses the text and calls the  *)
(* command (labgen.py 695-697).                                            *)
(***************************************************************************)
\* cmd_date, cmd_ref, cmd_fig (labgen.py 495, 515, 536), and a handler
\* declared (context, tableVar, precision="3") without **kwargs
CmdMethods ==
    { [arg_names |-> <<"parser">>, var_kw |-> TRUE],
      [arg_names |-> <<"parser", "var_name">>, var_kw |-> TRUE],
      [arg_names |-> <<"parser", "name", "hr_name">>, var_kw |-> TRUE],
      [arg_names |-> <<"context", "tableVar", "precision">>, var_kw |-> FALSE] }

CmdItems ==
    {"t1", "5", "var_name=t1", "name=t1", "hr_name=5", "tableVar=t1", "precision=5", "ext=jpg"}

RECURSIVE CmdTexts(_)
CmdTexts(n) ==
    IF n = 0 THEN {""}
    ELSE LET P == CmdTexts(n - 1)
         IN  P \cup CmdItems \cup {p \o "|" \o c : p \in P \ {""}, c \in CmdItems}

CmdInit ==
    /\ cmd_method \in CmdMethods
    /\ cmd_text \in CmdTexts(MaxCmdItems)
    /\ cmd_call = NoCall
    /\ cmd_pc = "call"
    /\ ArgsIdle
    /\ BldIdle
    /\ TplIdle
    /\ RenderIdle

DispatchCall ==
    /\ cmd_pc = "call"
    /\ cmd_call' = Command_call(cmd_method, parse_args(cmd_text))
    /\ cmd_pc' = IF cmd_call'.raised = "" THEN "returned" ELSE "raised"
    /\ UNCHANGED <<cmd_method, cmd_text, arg_vars, bld_vars, tpl_vars, rnd_vars>>

CmdNext == DispatchCall

SpecCmd == CmdInit /\ [][CmdNext]_vars

\* the named entries of the argument map that filled a declared parameter:
\* those of a declared parameter that has no entry under its integer index
consumed_names(method, args_dict) ==
    LET names == declared_names(method)
    IN  {names[i] : i \in {j \in 1..Len(names) :
                              (j - 1) \notin DOMAIN args_dict.pos
                              /\ names[j] \in DOMAIN args_dict.named}}

\* C7: once the positional list is built, the keyword channel handed to the
\* handler is exactly the named entries of the argument map that filled no
\* declared parameter, values unchanged (no entry is delivered both as a
\* positional and as a keyword argument); and the handler declared
\* (context, tableVar, precision="3"), called with {0: "t1", "precision": "5"},
\* receives tableVar = "t1" and precision = "5" and the call succeeds.
C7_KeywordChannelIsUnconsumedNamed ==
    (cmd_pc \in {"returned", "raised"} /\ cmd_call.raised # "KeyError") =>
        LET named == cmd_call.args_dict.named
            rest == (DOMAIN named) \ consumed_names(cmd_method, cmd_call.args_dict)
        IN  /\ cmd_call.kwargs = [k \in rest |-> named[k]]
            /\ (cmd_method.arg_names = <<"context", "tableVar", "precision">>
                    /\ cmd_text = "t1|precision=5")
                => (cmd_pc = "returned" /\ cmd_call.positional = <<"t1", "5">>)

\* C8: the i-th declared parameter (zero-based, the context parameter not
\* counted) receives the entry under integer key i when there is one and
\* otherwise the entry under its name; when every declared parameter has one
\* of the two, the handler is called successfully with these values.
C8_DeclaredParametersBound ==
    LET names == declared_names(cmd_method)
        d == parse_args(cmd_text)
    IN  (/\ cmd_pc \in {"returned", "raised"}
         /\ \A i \in 1..Len(names) :
                (i - 1) \in DOMAIN d.pos \/ names[i] \in DOMAIN d.named)
        => /\ cmd_pc = "returned"
           /\ cmd_call.positional =
                [i \in 1..Len(names) |->
                    IF (i - 1) \in DOMAIN d.pos THEN d.pos[i - 1] ELSE d.named[names[i]]]

(***************************************************************************)
(* The argument list parser on its own: every argument text of up to       *)
(* MaxArgLen characters over ArgAlphabet is parsed once.                   *)
(***************************************************************************)
ArgAlphabet == {"a", "b", "=", "|", " "}

ArgsInit ==
    /\ arg_text \in StringsUpTo(ArgAlphabet, MaxArgLen)
    /\ arg_kwargs = EmptyDict
    /\ arg_pc = "call"
    /\ CmdIdle
    /\ BldIdle
    /\ TplIdle
    /\ RenderIdle

ParseArgsCall ==
    /\ arg_pc = "call"
    /\ arg_kwargs' = parse_args(arg_text)
    /\ arg_pc' = "returned"
    /\ UNCHANGED <<arg_text, cmd_vars, bld_vars, tpl_vars, rnd_vars>>

ArgsNext == ParseArgsCall

SpecArgs == ArgsInit /\ [][ArgsNext]_vars

\* C9: for an argument text with m bare items the integer keys of the result
\* are exactly 0..m-1 and the j-th bare item is stored (trimmed) under key
\* j-1, also with name=value items before or between them; every named item
\* is stored under its name.
C9_BareItemsIndexedFromZero ==
    arg_pc = "returned" =>
        LET bare == bare_items(arg_text)
            named == named_items(arg_text)
        IN  /\ DOMAIN arg_kwargs.pos = 0..(Len(bare) - 1)
            /\ \A j \in 1..Len(bare) : arg_kwargs.pos[j - 1] = strip(bare[j].group3)
            /\ \A j \in 1..Len(named) : named[j].group1 \in DOMAIN arg_kwargs.named

====
